---- MODULE Spec2Model ----
(***************************************************************************)
(* Session and dashboard-synchronisation layer of the police dashboard     *)
(* (src/src/App.js): the App component's authentication state, the         *)
(* persisted 'auth_token', the login / registration / token-verification   *)
(* handlers with their asynchronous gateway responses, and the             *)
(* loadDashboardData refresh (Promise.all over three gateway calls).       *)
(*                                                                         *)
(* JavaScript runs each handler, and each continuation after an await, to  *)
(* completion on one thread: every action below is one such run.  The      *)
(* state setters called in one run are taken as one state change.          *)
(***************************************************************************)
EXTENDS Integers, Sequences, FiniteSets, TLC

VARIABLES
    mounted,        \* the mount effect (useEffect, lines 184-189) has run
    authToken,      \* localStorage['auth_token']
    isLoggedIn, showRegister, currentUser, authLoading, authError,
    loginData, registerData,
    tourists, incidents, dashboardStats,
    verifyReq,      \* the getCurrentUser call of verifyToken
    authReq,        \* the login / register gateway call awaited by a submit handler
    cycles,         \* the loadDashboardData calls, in the order they were started
    activeTab, selectedTourist, selectedIncident, mapCenter, showEFirModal,
    searchQuery     \* the dashboard's view state (lines 144-150)

vars == <<mounted, authToken, isLoggedIn, showRegister, currentUser, authLoading,
          authError, loginData, registerData, tourists, incidents, dashboardStats,
          verifyReq, authReq, cycles, activeTab, selectedTourist, selectedIncident,
          mapCenter, showEFirModal, searchQuery>>

session == <<authToken, isLoggedIn, currentUser>>
forms == <<loginData, registerData>>
domain == <<dashboardStats, tourists, incidents>>
view == <<activeTab, selectedTourist, selectedIncident, mapCenter, showEFirModal,
          searchQuery>>

----------------------------------------------------------------------------
(* Bounds *)

\* loadDashboardData calls started in one run of the process
MaxCycles == 2

----------------------------------------------------------------------------
(* Values *)

NoToken == "null"          \* localStorage.getItem of a missing key
NoUser == "null"           \* useState(null)
Absent == "undefined"      \* a field a JSON body does not have
NoReq == [kind |-> "none", state |-> "none", token |-> NoToken]

Tokens == {"tokA", "tokB"}
UserOf(t) == IF t = "tokA" THEN "officerA" ELSE "officerB"
ServerDetail == "Incorrect username or password"

\* JavaScript truthiness of a string-or-undefined value, as `x || y` and `if (x)` test it
Truthy(v) == v \notin {Absent, NoToken, ""}
\* a || b
OrElse(a, b) == IF Truthy(a) THEN a ELSE b

\* authError: the message, and for the missing-fields message the joined field names
Msg(text) == [msg |-> text, fields |-> <<>>]
NoError == Msg("")

\* Strings a form field can hold, as sequences of characters
IsSpace(ch) == ch = " "

RECURSIVE TrimStart(_)
TrimStart(s) == IF s # <<>> /\ IsSpace(Head(s)) THEN TrimStart(Tail(s)) ELSE s
RECURSIVE TrimEnd(_)
TrimEnd(s) ==
    IF s # <<>> /\ IsSpace(s[Len(s)]) THEN TrimEnd(SubSeq(s, 1, Len(s) - 1)) ELSE s
\* String.prototype.trim
Trim(s) == TrimEnd(TrimStart(s))

EmptyRegisterData ==
    [username |-> <<>>, email |-> <<>>, password |-> <<>>, confirmPassword |-> <<>>,
     full_name |-> <<>>, phone |-> <<>>, department |-> <<>>, rank |-> <<>>,
     station_id |-> <<>>, role |-> <<"o">>]
EmptyLoginData == [username |-> <<>>, password |-> <<>>]

FilledRegisterData ==
    [username |-> <<"u">>, email |-> <<"e">>, password |-> <<"p">>,
     confirmPassword |-> <<"p">>, full_name |-> <<"n">>, phone |-> <<"9">>,
     department |-> <<"d">>, rank |-> <<"r">>, station_id |-> <<"s">>,
     role |-> <<"o">>]
\* the forms the officer types in this model
RegisterForms ==
    { EmptyRegisterData,
      FilledRegisterData,
      [FilledRegisterData EXCEPT !.confirmPassword = <<"q">>],
      [FilledRegisterData EXCEPT !.phone = <<" ">>, !.rank = <<>>] }
LoginForms == { EmptyLoginData, [username |-> <<"u">>, password |-> <<"p">>] }

\* Seed data (mockTourists, mockIncidents, the initial dashboardStats): cycle 0.
\* Data a gateway call of refresh cycle c resolved with: the parsed body, a
\* collection ("data") or an error object such as {detail: ...} ("error").
Seed == [cycle |-> 0, kind |-> "seed"]
Payload(c, r) == [cycle |-> c, kind |-> IF r = "ok" THEN "data" ELSE "error"]

Calls == {"stats", "tourists", "incidents"}
\* how one gateway call ends: a 2xx JSON body, a non-2xx JSON body (fetch resolves,
\* response.json() parses it), or a rejection (network failure, unparsable body)
CallResults == {"ok", "error", "rejected"}
\* the two ways a call ends that the code tells apart: its promise resolves (with
\* whatever body was parsed) or rejects
SettledResults == {"ok", "rejected"}

\* Promise.all over the three calls: rejected at the first rejection, fulfilled
\* once every call has resolved
PromiseAll(calls) ==
    IF \E k \in Calls : calls[k] = "rejected" THEN "rejected"
    ELSE IF \A k \in Calls : calls[k] \in {"ok", "error"} THEN "fulfilled"
    ELSE "pending"

\* Variant of NewCycle: the requests awaited one after the other, so only the
\* first has been issued when the function first waits
NewCycleSequential(token) ==
    [token |-> token,
     calls |-> [k \in Calls |-> IF k = "stats" THEN "pending" ELSE "unissued"],
     outcome |-> "pending"]

\* the three requests are issued in the argument list of Promise.all, before
\* the await
NewCycle(token) ==
    [token |-> token, calls |-> [k \in Calls |-> "pending"], outcome |-> "pending"]

\* Response bodies of the gateway
VerifyBodies(token) == { [username |-> UserOf(token)], [username |-> Absent] }
LoginBodies ==
    { [access_token |-> t, user |-> UserOf(t), detail |-> Absent] : t \in Tokens }
    \cup { [access_token |-> Absent, user |-> Absent, detail |-> d] :
             d \in {Absent, "", ServerDetail} }
RegisterBodies ==
    { [username |-> "u", detail |-> Absent] }
    \cup { [username |-> Absent, detail |-> d] :
             d \in {Absent, "", "Username already registered"} }

\* View state.  A selection is <<>> (null) or <<item>>; a location is a pair of
\* coordinates in units of 0.0001 degree; the search text is a sequence of
\* characters
Tabs == {"map", "tourists", "incidents", "reports"}
NoSelection == <<>>
InitialMapCenter == <<286139, 772090>>
InitView ==
    /\ activeTab = "map"
    /\ selectedTourist = NoSelection
    /\ selectedIncident = NoSelection
    /\ mapCenter = InitialMapCenter
    /\ showEFirModal = FALSE
    /\ searchQuery = <<>>

----------------------------------------------------------------------------
(* Initial state: the useState initialisers; the persisted token is whatever *)
(* an earlier run of the process left in localStorage                        *)

Init ==
    /\ mounted = FALSE
    /\ authToken \in {NoToken} \cup Tokens
    /\ isLoggedIn = FALSE
    /\ showRegister = FALSE
    /\ currentUser = NoUser
    /\ authLoading = FALSE
    /\ authError = NoError
    /\ loginData = EmptyLoginData
    /\ registerData = EmptyRegisterData
    /\ tourists = Seed
    /\ incidents = Seed
    /\ dashboardStats = Seed
    /\ verifyReq = NoReq
    /\ authReq = NoReq
    /\ InitView
    /\ cycles = <<>>

----------------------------------------------------------------------------
(* loadDashboardData *)

\* Variant of LoadDashboardData: the call left out
LoadDashboardDataDropped(token) == UNCHANGED cycles

\* the call itself: the three requests are issued and the function awaits their join
LoadDashboardData(token) == cycles' = Append(cycles, NewCycle(token))

\* Variants of AfterJoin, each a way the join could have been written wrongly:
\* results applied as settled on a rejection (the shape of Promise.allSettled),
\* the third setter missing, and one callback per request
Resolved(r) == r \in {"ok", "error"}
AfterJoinSettled(c, calls, cur) ==
    IF PromiseAll(calls) = "pending" THEN cur
    ELSE <<IF Resolved(calls["stats"]) THEN Payload(c, calls["stats"]) ELSE cur[1],
           IF Resolved(calls["tourists"]) THEN Payload(c, calls["tourists"]) ELSE cur[2],
           IF Resolved(calls["incidents"]) THEN Payload(c, calls["incidents"]) ELSE cur[3]>>
AfterJoinTwoSetters(c, calls, cur) ==
    IF PromiseAll(calls) = "fulfilled"
    THEN <<Payload(c, calls["stats"]), Payload(c, calls["tourists"]), cur[3]>>
    ELSE cur
AfterJoinEachCallback(c, calls, cur) ==
    <<IF Resolved(calls["stats"]) THEN Payload(c, calls["stats"]) ELSE cur[1],
      IF Resolved(calls["tourists"]) THEN Payload(c, calls["tourists"]) ELSE cur[2],
      IF Resolved(calls["incidents"]) THEN Payload(c, calls["incidents"]) ELSE cur[3]>>

\* the Domain Model after a response of cycle c has been handled: the three
\* setters run once Promise.all has fulfilled; the catch block sets nothing
AfterJoin(c, calls, cur) ==
    IF PromiseAll(calls) = "fulfilled"
    THEN <<Payload(c, calls["stats"]), Payload(c, calls["tourists"]),
           Payload(c, calls["incidents"])>>
    ELSE cur

\* a response to call k of cycle c arrives.  After the join has rejected, the
\* responses still outstanding are dropped by Promise.all and change nothing.
DashRespond(c, k, r) ==
    /\ mounted
    /\ c \in 1..Len(cycles)
    /\ cycles[c].outcome = "pending"
    /\ cycles[c].calls[k] = "pending"
    /\ LET calls == [cycles[c].calls EXCEPT ![k] = r]
           joined == PromiseAll(calls)
           after == AfterJoin(c, calls, domain)
       IN  /\ cycles' = [cycles EXCEPT ![c] =
                           [@ EXCEPT !.calls = calls,
                                     !.outcome = CASE joined = "rejected" -> "failed"
                                                   [] joined = "fulfilled" -> "applied"
                                                   [] OTHER -> "pending"]]
           /\ dashboardStats' = after[1]
           /\ tourists' = after[2]
           /\ incidents' = after[3]
    /\ UNCHANGED <<view, mounted, session, showRegister, authLoading, authError, forms,
                   verifyReq, authReq>>

----------------------------------------------------------------------------
(* verifyToken and the mount effect *)

Mount ==
    /\ ~mounted
    /\ mounted' = TRUE
    /\ verifyReq' = IF Truthy(authToken)
                    THEN [kind |-> "me", state |-> "pending", token |-> authToken]
                    ELSE NoReq
    /\ UNCHANGED <<view, session, showRegister, authLoading, authError, forms, domain,
                   authReq, cycles>>

\* if (userData.username)
VerifyAccepted(thrown, body) == ~thrown /\ Truthy(body.username)

VerifyRespond(thrown, body) ==
    /\ verifyReq.state = "pending"
    /\ IF VerifyAccepted(thrown, body)
       THEN /\ currentUser' = body.username
            /\ isLoggedIn' = TRUE
            /\ LoadDashboardData(verifyReq.token)
            /\ verifyReq' = [verifyReq EXCEPT !.state = "verified"]
            /\ UNCHANGED authToken
       ELSE /\ authToken' = NoToken
            /\ verifyReq' = [verifyReq EXCEPT !.state = "rejected"]
            /\ UNCHANGED <<currentUser, isLoggedIn, cycles>>
    /\ UNCHANGED <<view, mounted, showRegister, authLoading, authError, forms, domain,
                   authReq>>

----------------------------------------------------------------------------
(* handleLogin *)

\* loadDashboardData calls that the requests now in flight can still start
CyclesToCome == IF verifyReq.state = "pending" THEN 1 ELSE 0

HandleLogin ==
    /\ mounted /\ ~showRegister /\ ~isLoggedIn
    /\ ~authLoading
    /\ Len(cycles) + CyclesToCome < MaxCycles
    /\ authLoading' = TRUE
    /\ authError' = NoError
    /\ authReq' = [kind |-> "login", state |-> "pending", token |-> NoToken]
    /\ UNCHANGED <<view, mounted, session, showRegister, forms, domain, verifyReq, cycles>>

\* Variants of the login response handling: the token test left out, and the
\* server's message never read
LoginAcceptedAlways(body) == TRUE
LoginErrorMessageGeneric(body) == Msg("Invalid credentials")

\* localStorage.setItem('auth_token', token), and a variant that leaves it out
PersistTokenSkipped(token) == UNCHANGED authToken
PersistToken(token) == authToken' = token

\* if (response.access_token)
LoginAccepted(body) == Truthy(body.access_token)
\* response.detail || 'Invalid credentials'
LoginErrorMessage(body) == Msg(OrElse(body.detail, "Invalid credentials"))
LoginThrownMessage == Msg("Login failed. Please check your credentials.")

\* Variant of LoginRespond: the busy flag cleared at the end of the try block
\* instead of in a finally block
LoginRespondNoFinally(thrown, body) ==
    /\ authReq.kind = "login" /\ authReq.state = "pending"
    /\ IF thrown
       THEN /\ authError' = LoginThrownMessage
            /\ UNCHANGED <<session, cycles, authLoading>>
       ELSE IF LoginAccepted(body)
       THEN /\ PersistToken(body.access_token)
            /\ currentUser' = body.user
            /\ isLoggedIn' = TRUE
            /\ authError' = NoError
            /\ LoadDashboardData(body.access_token)
            /\ authLoading' = FALSE
       ELSE /\ authError' = LoginErrorMessage(body)
            /\ authLoading' = FALSE
            /\ UNCHANGED <<session, cycles>>
    /\ authReq' = NoReq
    /\ UNCHANGED <<view, mounted, showRegister, forms, domain, verifyReq>>

LoginRespond(thrown, body) ==
    /\ authReq.kind = "login" /\ authReq.state = "pending"
    /\ IF thrown
       THEN /\ authError' = LoginThrownMessage
            /\ UNCHANGED <<session, cycles>>
       ELSE IF LoginAccepted(body)
       THEN /\ PersistToken(body.access_token)
            /\ currentUser' = body.user
            /\ isLoggedIn' = TRUE
            /\ authError' = NoError
            /\ LoadDashboardData(body.access_token)
       ELSE /\ authError' = LoginErrorMessage(body)
            /\ UNCHANGED <<session, cycles>>
    /\ authLoading' = FALSE
    /\ authReq' = NoReq
    /\ UNCHANGED <<view, mounted, showRegister, forms, domain, verifyReq>>

----------------------------------------------------------------------------
(* handleLogout *)

\* what handleLogout writes: the stored token, isLoggedIn, currentUser, loginData
LogoutState ==
    [authToken |-> authToken, isLoggedIn |-> isLoggedIn, currentUser |-> currentUser,
     loginData |-> loginData]
\* Variant of LogoutResult: the flag flipped instead of cleared
LogoutResultToggles(s) ==
    [authToken |-> NoToken, isLoggedIn |-> ~s.isLoggedIn, currentUser |-> NoUser,
     loginData |-> EmptyLoginData]
\* the four writes of handleLogout, none of them reading the state
LogoutResult(s) ==
    [authToken |-> NoToken, isLoggedIn |-> FALSE, currentUser |-> NoUser,
     loginData |-> EmptyLoginData]

\* Variant of HandleLogout: the view put back to its initial state as well
HandleLogoutResetsView ==
    /\ mounted /\ ~showRegister /\ isLoggedIn
    /\ authToken' = NoToken
    /\ isLoggedIn' = FALSE
    /\ currentUser' = NoUser
    /\ loginData' = EmptyLoginData
    /\ activeTab' = "map"
    /\ selectedTourist' = NoSelection
    /\ selectedIncident' = NoSelection
    /\ showEFirModal' = FALSE
    /\ UNCHANGED <<mounted, showRegister, authLoading, authError, registerData,
                   domain, verifyReq, authReq, cycles, mapCenter, searchQuery>>

HandleLogout ==
    /\ mounted /\ ~showRegister /\ isLoggedIn
    /\ authToken' = LogoutResult(LogoutState).authToken
    /\ isLoggedIn' = LogoutResult(LogoutState).isLoggedIn
    /\ currentUser' = LogoutResult(LogoutState).currentUser
    /\ loginData' = LogoutResult(LogoutState).loginData
    /\ UNCHANGED <<view, mounted, showRegister, authLoading, authError, registerData,
                   domain, verifyReq, authReq, cycles>>

----------------------------------------------------------------------------
(* handleRegister *)

RequiredFields ==
    <<"username", "email", "password", "full_name", "phone", "department", "rank",
      "station_id">>
\* Variants of the two validation tests: the blank test without trim(), and
\* the password comparison made after trimming
IsBlankUntrimmed(data, f) == data[f] = <<>>
PasswordsMatchTrimmed(data) == Trim(data.password) = Trim(data.confirmPassword)

\* requiredFields.filter(field => !registerData[field].trim())
IsBlank(data, f) == Trim(data[f]) = <<>>
MissingFields(data) == SelectSeq(RequiredFields, LAMBDA f : IsBlank(data, f))
PasswordsMatch(data) == data.password = data.confirmPassword

HandleRegister ==
    /\ mounted /\ showRegister
    /\ ~authLoading
    /\ IF ~PasswordsMatch(registerData)
       THEN /\ authError' = Msg("Passwords do not match")
            /\ authLoading' = FALSE
            /\ UNCHANGED authReq
       ELSE IF Len(MissingFields(registerData)) > 0
       THEN /\ authError' = [msg |-> "Please fill in all required fields: ",
                             fields |-> MissingFields(registerData)]
            /\ authLoading' = FALSE
            /\ UNCHANGED authReq
       ELSE /\ authError' = NoError
            /\ authLoading' = TRUE
            /\ authReq' = [kind |-> "register", state |-> "pending", token |-> NoToken]
    /\ UNCHANGED <<view, mounted, session, showRegister, forms, domain, verifyReq, cycles>>

\* if (response.username)
RegisterAccepted(body) == Truthy(body.username)
\* response.detail || 'Registration failed'
RegisterErrorMessage(body) == Msg(OrElse(body.detail, "Registration failed"))
RegisterThrownMessage == Msg("Registration failed. Please try again.")
RegisterSuccessMessage ==
    Msg("Registration successful! Please login with your credentials.")

\* the form after a successful registration, and a variant whose reset forgets
\* a field
ClearedRegisterDataKeepsConfirm(data) ==
    [EmptyRegisterData EXCEPT !.confirmPassword = data.confirmPassword]
ClearedRegisterData(data) == EmptyRegisterData

\* Variant of RegisterRespond: a successful registration also logs the new
\* officer in
RegisterRespondLogsIn(thrown, body) ==
    /\ authReq.kind = "register" /\ authReq.state = "pending"
    /\ IF ~thrown /\ Truthy(body.username)
       THEN /\ showRegister' = FALSE
            /\ authError' = Msg("Registration successful! Please login with your credentials.")
            /\ registerData' = EmptyRegisterData
            /\ isLoggedIn' = TRUE
            /\ currentUser' = body.username
            /\ UNCHANGED authToken
       ELSE /\ authError' = Msg("Registration failed")
            /\ UNCHANGED <<showRegister, registerData, session>>
    /\ authLoading' = FALSE
    /\ authReq' = NoReq
    /\ UNCHANGED <<view, mounted, loginData, domain, verifyReq, cycles>>

RegisterRespond(thrown, body) ==
    /\ authReq.kind = "register" /\ authReq.state = "pending"
    /\ IF thrown
       THEN /\ authError' = RegisterThrownMessage
            /\ UNCHANGED <<showRegister, registerData>>
       ELSE IF RegisterAccepted(body)
       THEN /\ showRegister' = FALSE
            /\ authError' = RegisterSuccessMessage
            /\ registerData' = ClearedRegisterData(registerData)
       ELSE /\ authError' = RegisterErrorMessage(body)
            /\ UNCHANGED <<showRegister, registerData>>
    /\ authLoading' = FALSE
    /\ authReq' = NoReq
    /\ UNCHANGED <<view, mounted, session, loginData, domain, verifyReq, cycles>>

----------------------------------------------------------------------------
(* Form input and screen selection *)

\* 'Register New Officer' on the login screen, 'Register Officer' in Quick
\* Actions, and the back / cancel buttons of the registration form
\* Variant of SetShowRegister: opening the form ends the session first
SetShowRegisterLogsOut(b) ==
    /\ mounted
    /\ showRegister = ~b
    /\ showRegister' = b
    /\ isLoggedIn' = FALSE
    /\ currentUser' = NoUser
    /\ authToken' = NoToken
    /\ UNCHANGED <<view, mounted, authLoading, authError, forms, domain,
                   verifyReq, authReq, cycles>>

SetShowRegister(b) ==
    /\ mounted
    /\ showRegister = ~b
    /\ showRegister' = b
    /\ UNCHANGED <<view, mounted, session, authLoading, authError, forms, domain,
                   verifyReq, authReq, cycles>>

SetLoginData(d) ==
    /\ mounted /\ ~showRegister /\ ~isLoggedIn
    /\ d # loginData
    /\ loginData' = d
    /\ UNCHANGED <<view, mounted, session, showRegister, authLoading, authError,
                   registerData, domain, verifyReq, authReq, cycles>>

SetRegisterData(d) ==
    /\ mounted /\ showRegister
    /\ d # registerData
    /\ registerData' = d
    /\ UNCHANGED <<view, mounted, session, showRegister, authLoading, authError,
                   loginData, domain, verifyReq, authReq, cycles>>

----------------------------------------------------------------------------

\* Session and refresh: startup verification, login, logout and the responses
\* of the gateway, on the login screen and the dashboard
NextSession ==
    \/ Mount
    \/ \E thrown \in BOOLEAN : \E body \in VerifyBodies(verifyReq.token) :
         VerifyRespond(thrown, body)
    \/ HandleLogin
    \/ \E thrown \in BOOLEAN : \E body \in LoginBodies : LoginRespond(thrown, body)
    \/ HandleLogout
    \/ \E c \in 1..MaxCycles : \E k \in Calls : \E r \in SettledResults :
         DashRespond(c, k, r)

\* Forms and registration
NextForms ==
    \/ HandleRegister
    \/ \E thrown \in BOOLEAN : \E body \in RegisterBodies : RegisterRespond(thrown, body)
    \/ \E b \in BOOLEAN : SetShowRegister(b)
    \/ \E d \in LoginForms : SetLoginData(d)
    \/ \E d \in RegisterForms : SetRegisterData(d)

\* The authentication screens: every submit handler and its response, with the
\* dashboard requests left in flight
NextAuth ==
    \/ Mount
    \/ \E thrown \in BOOLEAN : \E body \in VerifyBodies(verifyReq.token) :
         VerifyRespond(thrown, body)
    \/ HandleLogin
    \/ \E thrown \in BOOLEAN : \E body \in LoginBodies : LoginRespond(thrown, body)
    \/ HandleLogout
    \/ NextForms

Next ==
    \/ NextSession
    \/ NextForms
    \/ \E c \in 1..MaxCycles : \E k \in Calls : DashRespond(c, k, "error")

\* Session and refresh with every kind of response body: a dashboard request
\* can also be answered by an error body that parses as JSON
NextGateway ==
    \/ NextSession
    \/ \E c \in 1..MaxCycles : \E k \in Calls : DashRespond(c, k, "error")

----------------------------------------------------------------------------
(* The dashboard's rendering.  Here the three collections carry, next to the *)
(* refresh they came from, the content the gateway returned                 *)

MaxItems == 2

\* a collection value together with its content
Loaded(v, b) == [cycle |-> v.cycle, kind |-> v.kind, body |-> b]

\* a numeric field of the stats body: <<>> when the body has no such field,
\* <<n>> when it carries the number n
StatValues == {0, 2}
StatFields == { <<>> } \cup { <<n>> : n \in StatValues }
StatsBodies ==
    [active_tourists : StatFields, active_incidents : StatFields,
     safe_tourists : StatFields, efirs_today : StatFields]
InitialStats ==
    [active_tourists |-> <<4>>, active_incidents |-> <<1>>,
     safe_tourists |-> <<3>>, efirs_today |-> <<3>>]

\* tourists and incidents, reduced to the field the stats cards and the status
\* colours read
TouristStatuses == {"safe", "alert", "emergency", "lost", Absent}
IncidentStatuses == {"active", "resolved"}
mockTourists ==
    << [id |-> 1, name |-> <<"J", "o", "h", "n", " ", "D", "o", "e">>,
        location |-> <<286139, 772090>>, status |-> "safe"],
       [id |-> 2, name |-> <<"S", "a", "r", "a", "h", " ", "S", "m", "i", "t", "h">>,
        location |-> <<286129, 772295>>, status |-> "alert"],
       [id |-> 3, name |-> <<"M", "i", "k", "e", " ", "J", "o", "h", "n", "s", "o", "n">>,
        location |-> <<286169, 772310>>, status |-> "emergency"],
       [id |-> 4, name |-> <<"E", "m", "m", "a", " ", "W", "i", "l", "s", "o", "n">>,
        location |-> <<286200, 772100>>, status |-> "safe"] >>
mockIncidents ==
    << [id |-> 1, location |-> <<286169, 772310>>, status |-> "active"],
       [id |-> 2, location |-> <<286129, 772295>>, status |-> "investigating"],
       [id |-> 3, location |-> <<286150, 772200>>, status |-> "resolved"] >>
ListsOf(statuses) ==
    UNION { [1..n -> [status : statuses]] : n \in 0..MaxItems }
TouristLists == ListsOf(TouristStatuses) \cup {mockTourists}
IncidentLists == ListsOf(IncidentStatuses) \cup {mockIncidents}

\* x || y on a numeric field: 0 is falsy, as a missing field is
NumTruthy(x) == x # <<>> /\ x[1] # 0
NumOrElse(x, y) == IF NumTruthy(x) THEN x[1] ELSE y

\* list.filter(e => e.status === s).length
CountStatus(list, s) == Cardinality({ i \in 1..Len(list) : list[i].status = s })

DefaultEfirsToday == 3

\* Variant of ShownSafeTourists: the fallback counts every tourist
ShownSafeTouristsCountsAll(stats, ts) == NumOrElse(stats.safe_tourists, Len(ts))

\* the four stats cards
ShownActiveTourists(stats, ts) == NumOrElse(stats.active_tourists, Len(ts))
ShownActiveIncidents(stats, is) ==
    NumOrElse(stats.active_incidents, CountStatus(is, "active"))
ShownSafeTourists(stats, ts) ==
    NumOrElse(stats.safe_tourists, CountStatus(ts, "safe"))
ShownEfirsToday(stats) == NumOrElse(stats.efirs_today, DefaultEfirsToday)
StatsCards ==
    [active_tourists |-> ShownActiveTourists(dashboardStats.body, tourists.body),
     active_incidents |-> ShownActiveIncidents(dashboardStats.body, incidents.body),
     safe_tourists |-> ShownSafeTourists(dashboardStats.body, tourists.body),
     efirs_today |-> ShownEfirsToday(dashboardStats.body)]

\* Variant of getStatusColor: the switch without its default branch
GetStatusColorNoDefault(status) ==
    CASE status = "safe" -> "#22c55e"
      [] status = "alert" -> "#f59e0b"
      [] status = "emergency" -> "#ef4444"
      [] OTHER -> Absent

getStatusColor(status) ==
    CASE status = "safe" -> "#22c55e"
      [] status = "alert" -> "#f59e0b"
      [] status = "emergency" -> "#ef4444"
      [] OTHER -> "#6b7280"

\* the colour of each tourist's marker on the map
MarkerColors == [i \in 1..Len(tourists.body) |-> getStatusColor(tourists.body[i].status)]

\* the screen selection shows the dashboard
DashboardShown == isLoggedIn /\ ~showRegister

\* an officer has just logged in: the seed data is shown and the first refresh
\* is in flight
InitDisplay ==
    /\ mounted = TRUE
    /\ authToken = "tokA"
    /\ isLoggedIn = TRUE
    /\ showRegister = FALSE
    /\ currentUser = UserOf("tokA")
    /\ authLoading = FALSE
    /\ authError = NoError
    /\ loginData = EmptyLoginData
    /\ registerData = EmptyRegisterData
    /\ tourists = Loaded(Seed, mockTourists)
    /\ incidents = Loaded(Seed, mockIncidents)
    /\ dashboardStats = Loaded(Seed, InitialStats)
    /\ verifyReq = NoReq
    /\ authReq = NoReq
    /\ InitView
    /\ cycles = <<NewCycle("tokA")>>

\* the three responses of cycle c have arrived with these bodies: Promise.all
\* fulfils and the three setters install them
DashFulfil(c, stats, ts, is) ==
    /\ mounted
    /\ c \in 1..Len(cycles)
    /\ cycles[c].outcome = "pending"
    /\ cycles' = [cycles EXCEPT ![c] =
                    [@ EXCEPT !.calls = [k \in Calls |-> "ok"], !.outcome = "applied"]]
    /\ dashboardStats' = Loaded(Payload(c, "ok"), stats)
    /\ tourists' = Loaded(Payload(c, "ok"), ts)
    /\ incidents' = Loaded(Payload(c, "ok"), is)
    /\ UNCHANGED <<view, mounted, session, showRegister, authLoading, authError, forms,
                   verifyReq, authReq>>

\* the refreshes whose join has not settled
PendingCycles == { c \in 1..Len(cycles) : cycles[c].outcome = "pending" }

NextDisplay ==
    \/ \E c \in PendingCycles : \E stats \in StatsBodies :
         \E ts \in TouristLists : \E is \in IncidentLists : DashFulfil(c, stats, ts, is)
    \/ HandleLogout

----------------------------------------------------------------------------
(* The dashboard's view: tabs, the tourist search *)

MaxNameLen == 2

\* String.prototype.toLowerCase on the letters A-Z
UpperLetters ==
    <<"A", "B", "C", "D", "E", "F", "G", "H", "I", "J", "K", "L", "M",
      "N", "O", "P", "Q", "R", "S", "T", "U", "V", "W", "X", "Y", "Z">>
LowerLetters ==
    <<"a", "b", "c", "d", "e", "f", "g", "h", "i", "j", "k", "l", "m",
      "n", "o", "p", "q", "r", "s", "t", "u", "v", "w", "x", "y", "z">>
ToLowerChar(ch) ==
    IF \E i \in 1..Len(UpperLetters) : UpperLetters[i] = ch
    THEN LowerLetters[CHOOSE i \in 1..Len(UpperLetters) : UpperLetters[i] = ch]
    ELSE ch
ToLowerCase(text) == [i \in 1..Len(text) |-> ToLowerChar(text[i])]

\* String.prototype.includes
Includes(text, part) ==
    \E k \in 0..(Len(text) - Len(part)) : SubSeq(text, k + 1, k + Len(part)) = part

\* Variant of FilterMatches: the query compared as typed
FilterMatchesRawQuery(name, query) == Includes(ToLowerCase(name), query)

\* tourist.name.toLowerCase().includes(searchQuery.toLowerCase())
FilterMatches(name, query) == Includes(ToLowerCase(name), ToLowerCase(query))

\* the rows of the tourist list
FilteredTourists ==
    SelectSeq(tourists.body, LAMBDA tourist : FilterMatches(tourist.name, searchQuery))

\* tourist names, and the search texts typed
NameChars == {"A", "b"}
QueryChars == {"a", "A"}
Names == UNION { [1..n -> NameChars] : n \in 0..MaxNameLen }
Queries == UNION { [1..n -> QueryChars] : n \in 0..MaxNameLen }
NamedTouristLists ==
    UNION { { [i \in 1..n |-> [id |-> i, name |-> names[i], location |-> <<i, i>>,
                               status |-> "safe"]] : names \in [1..n -> Names] }
            : n \in 0..MaxItems }

SetActiveTab(tab) ==
    /\ mounted /\ DashboardShown
    /\ activeTab' = tab
    /\ UNCHANGED <<mounted, session, showRegister, authLoading, authError, forms,
                   domain, verifyReq, authReq, cycles, selectedTourist,
                   selectedIncident, mapCenter, showEFirModal, searchQuery>>

SetSearchQuery(text) ==
    /\ mounted /\ DashboardShown /\ activeTab = "tourists"
    /\ searchQuery' = text
    /\ UNCHANGED <<mounted, session, showRegister, authLoading, authError, forms,
                   domain, verifyReq, authReq, cycles, activeTab, selectedTourist,
                   selectedIncident, mapCenter, showEFirModal>>

\* the rows and markers a click can reach: a marker of the map tab, or a row of
\* the tourist list that passes the search
TouristShown(i) ==
    /\ i \in 1..Len(tourists.body)
    /\ \/ activeTab = "map"
       \/ activeTab = "tourists" /\ FilterMatches(tourists.body[i].name, searchQuery)
IncidentShown(i) == i \in 1..Len(incidents.body) /\ activeTab = "incidents"

\* Variant of SelectTourist: opening the details flags the tourist in place
SelectTouristFlags(i) ==
    /\ mounted /\ DashboardShown /\ TouristShown(i)
    /\ selectedTourist' = <<tourists.body[i]>>
    /\ tourists' = [tourists EXCEPT !.body[i].status = "alert"]
    /\ UNCHANGED <<mounted, session, showRegister, authLoading, authError, forms,
                   dashboardStats, incidents, verifyReq, authReq, cycles, activeTab,
                   selectedIncident, mapCenter, showEFirModal, searchQuery>>

\* 'View Details' of a marker popup, the eye button of a tourist row
SelectTourist(i) ==
    /\ mounted /\ DashboardShown /\ TouristShown(i)
    /\ selectedTourist' = <<tourists.body[i]>>
    /\ UNCHANGED <<mounted, session, showRegister, authLoading, authError, forms,
                   domain, verifyReq, authReq, cycles, activeTab, selectedIncident,
                   mapCenter, showEFirModal, searchQuery>>

\* the map-pin button of a tourist row
LocateTourist(i) ==
    /\ mounted /\ DashboardShown /\ activeTab = "tourists" /\ TouristShown(i)
    /\ mapCenter' = tourists.body[i].location
    /\ activeTab' = "map"
    /\ UNCHANGED <<mounted, session, showRegister, authLoading, authError, forms,
                   domain, verifyReq, authReq, cycles, selectedTourist,
                   selectedIncident, showEFirModal, searchQuery>>

\* the close button of the tourist details
CloseTourist ==
    /\ mounted /\ DashboardShown /\ selectedTourist # NoSelection
    /\ selectedTourist' = NoSelection
    /\ UNCHANGED <<mounted, session, showRegister, authLoading, authError, forms,
                   domain, verifyReq, authReq, cycles, activeTab, selectedIncident,
                   mapCenter, showEFirModal, searchQuery>>

\* 'View on Map' of the tourist details
TouristViewOnMap ==
    /\ mounted /\ DashboardShown /\ selectedTourist # NoSelection
    /\ mapCenter' = selectedTourist[1].location
    /\ activeTab' = "map"
    /\ selectedTourist' = NoSelection
    /\ UNCHANGED <<mounted, session, showRegister, authLoading, authError, forms,
                   domain, verifyReq, authReq, cycles, selectedIncident,
                   showEFirModal, searchQuery>>

\* the eye button of an incident row
SelectIncident(i) ==
    /\ mounted /\ DashboardShown /\ IncidentShown(i)
    /\ selectedIncident' = <<incidents.body[i]>>
    /\ UNCHANGED <<mounted, session, showRegister, authLoading, authError, forms,
                   domain, verifyReq, authReq, cycles, activeTab, selectedTourist,
                   mapCenter, showEFirModal, searchQuery>>

\* the map-pin button of an incident row
LocateIncident(i) ==
    /\ mounted /\ DashboardShown /\ IncidentShown(i)
    /\ mapCenter' = incidents.body[i].location
    /\ activeTab' = "map"
    /\ UNCHANGED <<mounted, session, showRegister, authLoading, authError, forms,
                   domain, verifyReq, authReq, cycles, selectedTourist,
                   selectedIncident, showEFirModal, searchQuery>>

\* the close button of the incident details
CloseIncident ==
    /\ mounted /\ DashboardShown /\ selectedIncident # NoSelection
    /\ selectedIncident' = NoSelection
    /\ UNCHANGED <<mounted, session, showRegister, authLoading, authError, forms,
                   domain, verifyReq, authReq, cycles, activeTab, selectedTourist,
                   mapCenter, showEFirModal, searchQuery>>

\* 'View on Map' of the incident details
IncidentViewOnMap ==
    /\ mounted /\ DashboardShown /\ selectedIncident # NoSelection
    /\ mapCenter' = selectedIncident[1].location
    /\ activeTab' = "map"
    /\ selectedIncident' = NoSelection
    /\ UNCHANGED <<mounted, session, showRegister, authLoading, authError, forms,
                   domain, verifyReq, authReq, cycles, selectedTourist,
                   showEFirModal, searchQuery>>

\* 'Generate E-FIR' of the Quick Actions
OpenEFir ==
    /\ mounted /\ DashboardShown
    /\ showEFirModal' = TRUE
    /\ UNCHANGED <<mounted, session, showRegister, authLoading, authError, forms,
                   domain, verifyReq, authReq, cycles, activeTab, selectedTourist,
                   selectedIncident, mapCenter, searchQuery>>

\* the E-FIR button of an active incident's row
OpenEFirFromList(i) ==
    /\ mounted /\ DashboardShown /\ IncidentShown(i)
    /\ incidents.body[i].status = "active"
    /\ showEFirModal' = TRUE
    /\ UNCHANGED <<mounted, session, showRegister, authLoading, authError, forms,
                   domain, verifyReq, authReq, cycles, activeTab, selectedTourist,
                   selectedIncident, mapCenter, searchQuery>>

\* 'Generate E-FIR' of an active incident's details
OpenEFirFromDetail ==
    /\ mounted /\ DashboardShown /\ selectedIncident # NoSelection
    /\ selectedIncident[1].status = "active"
    /\ selectedIncident' = NoSelection
    /\ showEFirModal' = TRUE
    /\ UNCHANGED <<mounted, session, showRegister, authLoading, authError, forms,
                   domain, verifyReq, authReq, cycles, activeTab, selectedTourist,
                   mapCenter, searchQuery>>

\* the close and Cancel buttons of the E-FIR draft
CloseEFir ==
    /\ mounted /\ DashboardShown /\ showEFirModal
    /\ showEFirModal' = FALSE
    /\ UNCHANGED <<mounted, session, showRegister, authLoading, authError, forms,
                   domain, verifyReq, authReq, cycles, activeTab, selectedTourist,
                   selectedIncident, mapCenter, searchQuery>>

\* the view-selection actions.  The three overlays are drawn over the dashboard
\* but disable none of its controls.
NextSelection ==
    \/ \E tab \in Tabs : SetActiveTab(tab)
    \/ \E i \in 1..Len(tourists.body) : SelectTourist(i) \/ LocateTourist(i)
    \/ CloseTourist \/ TouristViewOnMap
    \/ \E i \in 1..Len(incidents.body) :
         SelectIncident(i) \/ LocateIncident(i) \/ OpenEFirFromList(i)
    \/ CloseIncident \/ IncidentViewOnMap
    \/ OpenEFir \/ OpenEFirFromDetail \/ CloseEFir

\* the bodies of a refresh and the search texts used where the view is explored
SampleTourists ==
    { << [id |-> 1, name |-> <<"A">>, location |-> <<1, 1>>, status |-> "safe"] >> }
SampleQueries == { <<>>, <<"a">> }

\* the dashboard over sessions: the view, a refresh, logout and the next login
NextDashboard ==
    \/ NextSelection
    \/ \E text \in SampleQueries : SetSearchQuery(text)
    \/ \E c \in PendingCycles : \E ts \in SampleTourists :
         DashFulfil(c, InitialStats, ts, mockIncidents)
    \/ HandleLogout
    \/ HandleLogin
    \/ \E thrown \in BOOLEAN : \E body \in LoginBodies : LoginRespond(thrown, body)

\* the process from its start, the seed collections with their content
InitApp ==
    /\ mounted = FALSE
    /\ authToken = "tokA"
    /\ isLoggedIn = FALSE
    /\ showRegister = FALSE
    /\ currentUser = NoUser
    /\ authLoading = FALSE
    /\ authError = NoError
    /\ loginData = EmptyLoginData
    /\ registerData = EmptyRegisterData
    /\ tourists = Loaded(Seed, mockTourists)
    /\ incidents = Loaded(Seed, mockIncidents)
    /\ dashboardStats = Loaded(Seed, InitialStats)
    /\ verifyReq = NoReq
    /\ authReq = NoReq
    /\ InitView
    /\ cycles = <<>>

\* every kind of action of the program, each with one or two inputs: startup
\* verification, login, logout, registration, the refresh succeeding or
\* failing, and changes of tab, selection, search text and E-FIR modal
NextApp ==
    \/ Mount
    \/ \E thrown \in BOOLEAN : \E body \in VerifyBodies(verifyReq.token) :
         VerifyRespond(thrown, body)
    \/ HandleLogin
    \/ \E body \in LoginBodies : LoginRespond(FALSE, body)
    \/ HandleLogout
    \/ \E c \in PendingCycles : \E ts \in SampleTourists :
         DashFulfil(c, InitialStats, ts, mockIncidents)
    \/ \E c \in PendingCycles : DashRespond(c, "stats", "rejected")
    \/ \E b \in BOOLEAN : SetShowRegister(b)
    \/ SetRegisterData(FilledRegisterData)
    \/ HandleRegister
    \/ \E body \in RegisterBodies : RegisterRespond(FALSE, body)
    \/ SetActiveTab("tourists")
    \/ SelectTourist(1)
    \/ SetSearchQuery(<<"a">>)
    \/ OpenEFir

\* the tourist list and its search box, over the tourists a refresh installs
NextFilter ==
    \/ \E c \in PendingCycles : \E ts \in NamedTouristLists :
         DashFulfil(c, InitialStats, ts, mockIncidents)
    \/ \E tab \in Tabs : SetActiveTab(tab)
    \/ \E text \in Queries : SetSearchQuery(text)

\* the whole program.  Its state space is the product of the two restrictions
\* below, which are the ones enumerated.
Spec == Init /\ [][Next]_vars
\* the session and the refresh cycles, the forms left untouched
SpecSession == Init /\ [][NextSession]_vars
\* the login and registration screens, no dashboard response arriving
SpecAuth == Init /\ [][NextAuth]_vars
\* the same, with every gateway call of a submit handler completing: a pending
\* login or registration call is eventually answered or fails
SpecAuthLive ==
    /\ SpecAuth
    /\ WF_vars(\E thrown \in BOOLEAN : \E body \in LoginBodies : LoginRespond(thrown, body))
    /\ WF_vars(\E thrown \in BOOLEAN : \E body \in RegisterBodies :
                  RegisterRespond(thrown, body))
\* the session and the refresh cycles, error bodies included
SpecGateway == Init /\ [][NextGateway]_vars
\* what the dashboard shows of the data a refresh installs
SpecDisplay == InitDisplay /\ [][NextDisplay]_vars
\* the tourist list under the search box
SpecFilter == InitDisplay /\ [][NextFilter]_vars
\* the view-selection actions on the dashboard
SpecSelection == InitDisplay /\ [][NextSelection]_vars
\* the dashboard from one session to the next
SpecDashboard == InitDisplay /\ [][NextDashboard]_vars
\* every kind of action, from the start of the process
SpecApp == InitApp /\ [][NextApp]_vars

----------------------------------------------------------------------------
(* Properties *)

CycleIds == 1..Len(cycles)
\* cycle c settles in this step: its join fulfils (the setters run) or rejects
Applies(c) == cycles[c].outcome = "pending" /\ cycles'[c].outcome = "applied"
Fails(c) == cycles[c].outcome = "pending" /\ cycles'[c].outcome = "failed"
FromCycle(c) ==
    dashboardStats.cycle = c /\ tourists.cycle = c /\ incidents.cycle = c

\* C1: stale refresh responses are discarded.  Cycles are numbered in the order
\* they were started, a later login's cycle after an earlier one's; with no token
\* stored at start every cycle is started by a login and two cycles are separated
\* by a logout.  Once the results of a cycle are held, no step replaces any of the
\* three collections by the results of a cycle started earlier.
C1_StaleResponsesDiscarded ==
    [][ verifyReq.kind = "none" =>
          /\ dashboardStats'.cycle >= dashboardStats.cycle
          /\ tourists'.cycle >= tourists.cycle
          /\ incidents'.cycle >= incidents.cycle ]_vars

\* C2: no partial update on failure.  A step in which a refresh fails (one of its
\* three calls rejects, whatever the other two have done) leaves dashboardStats,
\* tourists and incidents as they were.
C2_NoPartialUpdateOnFailure ==
    [][ (\E c \in CycleIds : Fails(c)) => UNCHANGED domain ]_vars

\* C2 witness: a refresh has failed on one call after its other two calls had
\* succeeded, and the seed snapshot is still held.
C2_Witness ==
    \E c \in CycleIds :
        /\ cycles[c].outcome = "failed"
        /\ Cardinality({k \in Calls : cycles[c].calls[k] = "ok"}) = 2
        /\ FromCycle(0)

\* C3: atomic replacement on success.  The step in which the three calls of a
\* cycle have all succeeded replaces the three collections by that cycle's
\* results together, and no other step changes any of the three.
C3_AtomicReplacement ==
    [][ /\ \A c \in CycleIds : Applies(c) => FromCycle(c)'
        /\ domain' # domain => \E c \in CycleIds : Applies(c) ]_vars

\* C3 witness: the second refresh has replaced the snapshot the first one
\* installed.
C3_Witness ==
    /\ Len(cycles) >= 2
    /\ cycles[1].outcome = "applied" /\ cycles[2].outcome = "applied"
    /\ FromCycle(2)

\* C4: same-cycle invariant.  dashboardStats, tourists and incidents always come
\* from one and the same cycle (cycle 0 is the seed).
C4_SameCycle ==
    /\ dashboardStats.cycle = tourists.cycle
    /\ tourists.cycle = incidents.cycle

\* C4 witness: the results of one refresh are held while another refresh has
\* received some of its responses and waits for the rest.
C4_Witness ==
    \E c, d \in CycleIds :
        /\ c # d
        /\ FromCycle(c)
        /\ cycles[d].outcome = "pending"
        /\ \E k \in Calls : cycles[d].calls[k] = "ok"

Anonymous == ~isLoggedIn /\ currentUser = NoUser
\* how a gateway call of the authentication endpoints ended
VerifyRejected(thrown, body) == thrown \/ ~Truthy(body.username)
LoginFailed(thrown, body) == thrown \/ ~Truthy(body.access_token)
RegisterFailed(thrown, body) == thrown \/ ~Truthy(body.username)
\* the server supplied a message: the body has a detail and it is not empty
Supplied(d) == d \notin {Absent, ""}

\* C5: session invariant.  currentUser is populated if and only if a token is
\* stored under 'auth_token' and the session has been verified (isLoggedIn, the
\* flag a successful login and a successful getCurrentUser response both set).
C5_SessionInvariant ==
    (currentUser # NoUser) <=> (authToken # NoToken /\ isLoggedIn)

\* C6: rejected startup verification.  After the step that handles a rejected
\* getCurrentUser (the call failed, or the body has no username) the session is
\* Anonymous, no token is stored, no refresh has been started by the step and
\* authError is what it was.
C6_RejectedVerification ==
    [][ \A thrown \in BOOLEAN : \A body \in VerifyBodies(verifyReq.token) :
          (VerifyRespond(thrown, body) /\ VerifyRejected(thrown, body)) =>
              /\ Anonymous'
              /\ authToken' = NoToken
              /\ cycles' = cycles
              /\ authError' = authError ]_vars

\* C7: successful startup verification.  The step that handles a getCurrentUser
\* response carrying an officer record sets isLoggedIn, sets currentUser to that
\* officer, leaves the stored token in place and starts a refresh with the
\* verified token.  With no token stored, the mount effect issues no call,
\* leaves the session Anonymous, and no getCurrentUser call is made later.
C7_SuccessfulVerification ==
    [][ /\ \A body \in VerifyBodies(verifyReq.token) :
             (VerifyRespond(FALSE, body) /\ Truthy(body.username)) =>
                 /\ isLoggedIn'
                 /\ currentUser' = body.username
                 /\ authToken' = authToken
                 /\ cycles' = Append(cycles, NewCycle(verifyReq.token))
        /\ (~mounted /\ mounted' /\ authToken = NoToken) =>
                 /\ verifyReq' = NoReq
                 /\ Anonymous' /\ authToken' = NoToken
        /\ (mounted /\ verifyReq = NoReq) => verifyReq' = NoReq ]_vars

\* C7 witness: the token stored at start has been verified; the session is
\* Authenticated with its officer, the token is still stored and the refresh
\* started with it is in flight.
C7_Witness ==
    /\ verifyReq.state = "verified"
    /\ isLoggedIn /\ currentUser = UserOf(verifyReq.token)
    /\ authToken = verifyReq.token
    /\ Len(cycles) = 1 /\ cycles[1].token = verifyReq.token

\* C8: successful login.  The step that handles a login response carrying an
\* access token stores that token, sets currentUser to the officer of the
\* response, sets isLoggedIn and starts a refresh with that token.
C8_SuccessfulLogin ==
    [][ \A body \in LoginBodies :
          (LoginRespond(FALSE, body) /\ Truthy(body.access_token)) =>
              /\ authToken' = body.access_token
              /\ currentUser' = body.user
              /\ isLoggedIn'
              /\ cycles' = Append(cycles, NewCycle(body.access_token)) ]_vars

\* C8 witness: with no token stored at start, a login has succeeded: its token
\* is stored, its officer is the session user and its refresh is in flight.
C8_Witness ==
    /\ verifyReq = NoReq
    /\ isLoggedIn /\ authToken \in Tokens /\ currentUser = UserOf(authToken)
    /\ Len(cycles) = 1 /\ cycles[1].token = authToken
    /\ cycles[1].outcome = "pending"

\* C9: a failed login leaves the session as it was.  The step that handles a
\* failed login (the call failed, or the body has no access token) changes none
\* of isLoggedIn, currentUser and the stored token and starts no refresh; when no
\* startup verification is under way the session is Anonymous and no token is
\* stored after it.
C9_FailedLogin ==
    [][ \A thrown \in BOOLEAN : \A body \in LoginBodies :
          (LoginRespond(thrown, body) /\ LoginFailed(thrown, body)) =>
              /\ UNCHANGED <<isLoggedIn, currentUser, authToken, cycles>>
              /\ verifyReq = NoReq => Anonymous' /\ authToken' = NoToken ]_vars

\* C9 witness: a login has failed; nobody is logged in, no token is stored and
\* no refresh was started.
C9_Witness ==
    /\ mounted /\ ~authLoading
    /\ authError \in {Msg("Invalid credentials"), LoginThrownMessage}
    /\ Anonymous /\ authToken = NoToken /\ cycles = <<>>

\* C10: error message surfacing.  After a failed login or a failed registration
\* call, authError is the server's detail when the body has a non-empty one, and
\* otherwise one of the fixed messages of the handler.
C10_ErrorMessageSurfaced ==
    [][ /\ \A thrown \in BOOLEAN : \A body \in LoginBodies :
             (LoginRespond(thrown, body) /\ LoginFailed(thrown, body)) =>
                 authError' = IF thrown THEN LoginThrownMessage
                              ELSE IF Supplied(body.detail) THEN Msg(body.detail)
                              ELSE Msg("Invalid credentials")
        /\ \A thrown \in BOOLEAN : \A body \in RegisterBodies :
             (RegisterRespond(thrown, body) /\ RegisterFailed(thrown, body)) =>
                 authError' = IF thrown THEN RegisterThrownMessage
                              ELSE IF Supplied(body.detail) THEN Msg(body.detail)
                              ELSE Msg("Registration failed") ]_vars

\* C10 witness: the server's message of a failed registration is shown on the
\* registration form.
C10_Witness ==
    /\ showRegister /\ ~authLoading
    /\ authError = Msg("Username already registered")

----------------------------------------------------------------------------
(* The registration form on its own: every form the officer can have typed   *)
(* (one onChange per field, lines 379-493) when the form is submitted         *)

\* what a text field of the form can hold: nothing, white space, text
FieldTexts == { <<>>, <<" ">>, <<"a">> }
PasswordTexts == { <<>>, <<" ">>, <<"p">> }
ConfirmTexts == PasswordTexts \cup { <<"p", " ">> }
\* the <select> of the role: officer, admin
RoleTexts == { <<"o">>, <<"a">> }

TypedRegisterForms ==
    [username : FieldTexts, email : FieldTexts, password : PasswordTexts,
     confirmPassword : ConfirmTexts, full_name : FieldTexts, phone : FieldTexts,
     department : FieldTexts, rank : FieldTexts, station_id : FieldTexts,
     role : RoleTexts]

\* the registration form is open on the login screen, filled in some way
InitRegister ==
    /\ mounted = TRUE
    /\ authToken = NoToken
    /\ isLoggedIn = FALSE
    /\ showRegister = TRUE
    /\ currentUser = NoUser
    /\ authLoading = FALSE
    /\ authError = NoError
    /\ loginData = EmptyLoginData
    /\ registerData \in TypedRegisterForms
    /\ tourists = Seed
    /\ incidents = Seed
    /\ dashboardStats = Seed
    /\ verifyReq = NoReq
    /\ authReq = NoReq
    /\ InitView
    /\ cycles = <<>>

NextRegister ==
    \/ HandleRegister
    \/ \E thrown \in BOOLEAN : \E body \in RegisterBodies : RegisterRespond(thrown, body)

SpecRegister == InitRegister /\ [][NextRegister]_vars

----------------------------------------------------------------------------
(* Properties of registration *)

\* a text is blank after trimming: it holds nothing but white space
OnlySpaces(t) == \A i \in 1..Len(t) : t[i] = " "
RequiredSet ==
    {"username", "email", "password", "full_name", "phone", "department", "rank",
     "station_id"}
BlankRequired(data) == {f \in RequiredSet : OnlySpaces(data[f])}
SeqRange(q) == {q[i] : i \in 1..Len(q)}
\* no registration call is awaited after the step, and none was before it
NoRegisterCall == authReq = NoReq /\ authReq' = NoReq /\ ~authLoading'
MissingFieldsMessage == "Please fill in all required fields: "

\* C11: password mismatch is rejected locally.  Submitting a form whose password
\* and confirmPassword are not the same text, character for character, sets the
\* mismatch error and issues no registration call.
C11_PasswordMismatchRejected ==
    [][ (HandleRegister /\ registerData.password # registerData.confirmPassword) =>
            /\ authError' = Msg("Passwords do not match")
            /\ NoRegisterCall ]_vars

\* C11 witness: a form whose two passwords differ only in trailing white space
\* was submitted and rejected, with no call awaited.
C11_Witness ==
    /\ registerData.password = <<"p">> /\ registerData.confirmPassword = <<"p", " ">>
    /\ authError = Msg("Passwords do not match")
    /\ authReq = NoReq /\ ~authLoading

\* C12 (as claimed): submitting a form with at least one required field blank
\* after trimming issues no registration call and reports exactly the required
\* fields that are blank.
C12_MissingFieldsListed ==
    [][ (HandleRegister /\ BlankRequired(registerData) # {}) =>
            /\ NoRegisterCall
            /\ authError'.msg = MissingFieldsMessage
            /\ SeqRange(authError'.fields) = BlankRequired(registerData) ]_vars

\* C12 (amended): the same, for the forms whose password and confirmPassword are
\* equal; the names are listed once each, in the order of requiredFields.  A
\* form whose passwords differ is rejected with the mismatch error instead, with
\* no call issued and no field listed.
C12_MissingFieldsListedWhenPasswordsMatch ==
    [][ (HandleRegister /\ BlankRequired(registerData) # {}) =>
            /\ NoRegisterCall
            /\ registerData.password = registerData.confirmPassword =>
                 /\ authError'.msg = MissingFieldsMessage
                 /\ SeqRange(authError'.fields) = BlankRequired(registerData)
                 /\ Len(authError'.fields) = Cardinality(BlankRequired(registerData))
                 /\ authError'.fields =
                        SelectSeq(RequiredFields, LAMBDA f : f \in BlankRequired(registerData))
            /\ registerData.password # registerData.confirmPassword =>
                 authError' = Msg("Passwords do not match") ]_vars

\* C12 witness: every required field but the (matching) passwords is blank, one
\* of them holding white space, and all seven are listed.
C12_Witness ==
    /\ registerData.password = <<"p">> /\ registerData.confirmPassword = <<"p">>
    /\ registerData.phone = <<" ">>
    /\ authError = [msg |-> MissingFieldsMessage,
                    fields |-> <<"username", "email", "full_name", "phone",
                                 "department", "rank", "station_id">>]
    /\ authReq = NoReq /\ ~authLoading

RegisterStep ==
    \/ HandleRegister
    \/ \E thrown \in BOOLEAN : \E body \in RegisterBodies : RegisterRespond(thrown, body)

\* C13: registration never authenticates.  A submit of the registration form,
\* whether it fails validation or issues the call, and the handling of its
\* response, whether success, error body or thrown failure, leave isLoggedIn,
\* currentUser and the stored token as they were and start no refresh.
C13_RegistrationNeverAuthenticates ==
    [][ RegisterStep => UNCHANGED <<isLoggedIn, currentUser, authToken, cycles>> ]_vars

\* C13 witness: a registration has succeeded with nobody logged in; the session
\* is still Anonymous, no token is stored and no refresh was started.
C13_Witness ==
    /\ authError = RegisterSuccessMessage /\ ~showRegister
    /\ Anonymous /\ authToken = NoToken /\ cycles = <<>> /\ verifyReq = NoReq

\* C14 (as claimed): the registration form is opened only while the session is
\* Anonymous, and no registration is submitted while it is Authenticated.
C14_RegisteringOnlyWhileAnonymous ==
    [][ /\ (~showRegister /\ showRegister') => Anonymous
        /\ HandleRegister => ~isLoggedIn ]_vars

\* C14 (amended): the registration form can be opened from the login screen and
\* from the dashboard; opening it, submitting it, its response and leaving it
\* do not change isLoggedIn, currentUser or the stored token.  isLoggedIn turns
\* true only on the response of a pending login or verification, and turns
\* false only by logout, which leaves the session Anonymous with no token.
C14_RegisteringLeavesSession ==
    [][ /\ (showRegister' # showRegister \/ RegisterStep) =>
               UNCHANGED <<isLoggedIn, currentUser, authToken>>
        /\ (~isLoggedIn /\ isLoggedIn') =>
               \/ authReq.kind = "login" /\ authReq.state = "pending"
               \/ verifyReq.state = "pending"
        /\ (isLoggedIn /\ ~isLoggedIn') => Anonymous' /\ authToken' = NoToken ]_vars

\* C14 witness: a registration was submitted from the dashboard and its call is
\* awaited while the session is Authenticated.
C14_Witness ==
    /\ showRegister /\ isLoggedIn /\ currentUser # NoUser
    /\ authReq.kind = "register" /\ authReq.state = "pending"

\* C15: successful registration.  The step that handles a registration response
\* carrying a username resets every field of registerData to its initial value,
\* shows the success message on the login screen (the form is closed, the busy
\* flag cleared) and changes nothing of the session.
C15_SuccessfulRegistration ==
    [][ \A body \in RegisterBodies :
          (RegisterRespond(FALSE, body) /\ Truthy(body.username)) =>
              /\ registerData' = EmptyRegisterData
              /\ authError' = RegisterSuccessMessage
              /\ ~showRegister' /\ ~authLoading'
              /\ UNCHANGED <<isLoggedIn, currentUser, authToken, cycles>> ]_vars

\* C15 witness: the completed form has been registered; the form is back to its
\* initial value and closed, the success message is shown, nobody is logged in.
C15_Witness ==
    /\ registerData = EmptyRegisterData /\ ~showRegister
    /\ authError = RegisterSuccessMessage /\ ~authLoading /\ authReq = NoReq
    /\ Anonymous

\* C16: logout is unconditional and idempotent.  In every reachable state, what
\* handleLogout writes is: no stored token, isLoggedIn false, currentUser absent;
\* and writing it a second time changes nothing more.
C16_LogoutIdempotent ==
    LET once == LogoutResult(LogoutState)
    IN  /\ once.authToken = NoToken
        /\ ~once.isLoggedIn
        /\ once.currentUser = NoUser
        /\ LogoutResult(once) = once

\* C16 witness: an officer who had logged in has logged out.
C16_Witness ==
    /\ verifyReq = NoReq /\ Len(cycles) >= 1
    /\ LogoutState = LogoutResult(LogoutState)

\* C17: gateway failures are never silent.  A refresh one of whose requests was
\* answered by an error body is not applied, and none of dashboardStats,
\* tourists and incidents ever holds an error body.
C17_NoErrorBodyInstalled ==
    /\ \A c \in CycleIds :
         (\E k \in Calls : cycles[c].calls[k] = "error") => cycles[c].outcome # "applied"
    /\ dashboardStats.kind # "error"
    /\ tourists.kind # "error"
    /\ incidents.kind # "error"

StatNames == {"active_tourists", "active_incidents", "safe_tourists", "efirs_today"}
RECURSIVE CountFrom(_, _, _)
CountFrom(list, s, i) ==
    IF i > Len(list) THEN 0
    ELSE (IF list[i].status = s THEN 1 ELSE 0) + CountFrom(list, s, i + 1)
Refreshed == dashboardStats.kind = "data" /\ tourists.kind = "data" /\ incidents.kind = "data"

\* C18: server stats take precedence when present.  While the dashboard is
\* shown, each of the four cards whose field the stats body carries, whatever
\* its value, 0 included, shows that value.
C18_ServerStatsPrecedence ==
    DashboardShown =>
        \A f \in StatNames :
            dashboardStats.body[f] # <<>> => StatsCards[f] = dashboardStats.body[f][1]

\* C19: local derivation.  While the dashboard is shown, when the stats body has
\* no active_incidents the card shows the number of incidents whose status is
\* 'active', and when it has no safe_tourists the card shows the number of
\* tourists whose status is 'safe'.
C19_LocalDerivation ==
    DashboardShown =>
        /\ dashboardStats.body.active_incidents = <<>> =>
               StatsCards.active_incidents = CountFrom(incidents.body, "active", 1)
        /\ dashboardStats.body.safe_tourists = <<>> =>
               StatsCards.safe_tourists = CountFrom(tourists.body, "safe", 1)

\* C19 witness: a refresh brought the tourists safe, alert, emergency, safe and
\* three incidents of which one is active, with neither count in the stats; the
\* cards show 2 safe tourists and 1 active incident.
C19_Witness ==
    /\ DashboardShown /\ Refreshed
    /\ dashboardStats.body.safe_tourists = <<>>
    /\ dashboardStats.body.active_incidents = <<>>
    /\ tourists.body = mockTourists /\ incidents.body = mockIncidents
    /\ StatsCards.safe_tourists = 2 /\ StatsCards.active_incidents = 1

\* C20: statusColor is total.  Every tourist's marker is green for 'safe', amber
\* for 'alert', red for 'emergency' and the default gray for any other status,
\* a missing one included.
C20_StatusColorTotal ==
    \A i \in 1..Len(tourists.body) :
        LET status == tourists.body[i].status
            color == MarkerColors[i]
        IN  /\ status = "safe" => color = "#22c55e"
            /\ status = "alert" => color = "#f59e0b"
            /\ status = "emergency" => color = "#ef4444"
            /\ status \notin {"safe", "alert", "emergency"} => color = "#6b7280"

\* C20 witness: a refresh brought a tourist with an unknown status and one with
\* no status; both markers are gray.
C20_Witness ==
    /\ DashboardShown /\ Refreshed
    /\ Len(tourists.body) = 2
    /\ tourists.body[1].status = "lost" /\ tourists.body[2].status = Absent
    /\ MarkerColors = <<"#6b7280", "#6b7280">>

\* the name holds the query at some offset, letters compared without their case
SameLetter(a, b) ==
    \/ a = b
    \/ \E i \in 1..Len(UpperLetters) : {a, b} = {UpperLetters[i], LowerLetters[i]}
ContainsIgnoringCase(name, query) ==
    \E k \in 0..(Len(name) - Len(query)) :
        \A p \in 1..Len(query) : SameLetter(name[k + p], query[p])
Hits == { i \in 1..Len(tourists.body) :
            ContainsIgnoringCase(tourists.body[i].name, searchQuery) }

\* C21: tourist filter.  The rows of the tourist list are exactly the tourists
\* whose name contains the search text ignoring letter case, each once and in
\* the order of the collection; with the empty search text they are the whole
\* collection.
C21_TouristFilter ==
    /\ Len(FilteredTourists) = Cardinality(Hits)
    /\ \A j \in 1..Len(FilteredTourists) :
         \E i \in Hits : /\ FilteredTourists[j] = tourists.body[i]
                         /\ Cardinality({ h \in Hits : h < i }) = j - 1
    /\ searchQuery = <<>> => FilteredTourists = tourists.body

\* C21 witness: of the tourists 'b' and 'bA' the search text 'a' keeps the second.
C21_Witness ==
    /\ DashboardShown /\ activeTab = "tourists"
    /\ searchQuery = <<"a">>
    /\ Len(tourists.body) = 2
    /\ tourists.body[1].name = <<"b">> /\ tourists.body[2].name = <<"b", "A">>
    /\ FilteredTourists = <<tourists.body[2]>>

\* a refresh settles in this step after a request of it met a network failure
\* or was answered by an error body
RefreshFails(c) ==
    /\ cycles[c].outcome = "pending"
    /\ cycles'[c].outcome # "pending"
    /\ \E k \in Calls : cycles'[c].calls[k] \in {"error", "rejected"}

\* C22: a failed dashboard refresh is non-blocking.  The step in which a refresh
\* fails, by a network failure or by an error response of the server, leaves
\* isLoggedIn, authError and the three collections as they were.
C22_FailedRefreshNonBlocking ==
    [][ \A c \in CycleIds :
          RefreshFails(c) => UNCHANGED <<isLoggedIn, authError, domain>> ]_vars

\* what a refresh has come to, as a function of the results its requests have
\* so far, whatever the order they arrived in
OutcomeOf(calls) ==
    IF \E k \in Calls : calls[k] = "rejected" THEN "failed"
    ELSE IF \A k \in Calls : calls[k] \in {"ok", "error"} THEN "applied"
    ELSE "pending"

\* C23: concurrent issue of the dashboard fetches.  In every refresh all three
\* requests have been issued (each is awaiting its response or has been
\* answered), and the state of the refresh is determined by the results received
\* so far, not by their order.
C23_FireAndJoin ==
    \A c \in CycleIds :
        /\ \A k \in Calls : cycles[c].calls[k] \in CallResults \cup {"pending"}
        /\ cycles[c].outcome = OutcomeOf(cycles[c].calls)

\* C23 witness: the request issued last has been answered while the two issued
\* before it are still awaited.
C23_Witness ==
    \E c \in CycleIds :
        /\ cycles[c].calls["incidents"] = "ok"
        /\ cycles[c].calls["stats"] = "pending"
        /\ cycles[c].calls["tourists"] = "pending"
        /\ cycles[c].outcome = "pending"

\* C25: overlay mutual exclusion.  The E-FIR draft is never open while a tourist
\* or an incident is selected for its details.
C25_OverlayMutualExclusion ==
    ~(showEFirModal /\ (selectedTourist # NoSelection \/ selectedIncident # NoSelection))

\* C27: logout frame.  A step that ends the session changes nothing but the
\* stored token, isLoggedIn, currentUser and the login form: the three
\* collections and the view state are as before it; and the step in which the
\* next session begins leaves the collections and the view as the earlier
\* session left them.
C27_LogoutFrame ==
    [][ /\ (isLoggedIn /\ ~isLoggedIn') =>
               UNCHANGED <<domain, view, mounted, showRegister, authLoading, authError,
                           registerData, verifyReq, authReq, cycles>>
        /\ (~isLoggedIn /\ isLoggedIn') => UNCHANGED <<domain, view>> ]_vars

\* C27 witness: the officer logged out and in again; the collections the first
\* session loaded, its tab, its selection and its search text are still held.
C27_Witness ==
    /\ isLoggedIn /\ Len(cycles) = 2 /\ cycles[2].outcome = "pending"
    /\ tourists.kind = "data" /\ tourists.cycle = 1
    /\ incidents.cycle = 1 /\ dashboardStats.cycle = 1
    /\ activeTab = "tourists" /\ selectedTourist # NoSelection
    /\ searchQuery = <<"a">>

\* C24: single writer of the Domain Model.  A step changes tourists, incidents
\* or dashboardStats only if a refresh is applied in it, and then all three are
\* replaced by that refresh's results; no other step touches any of them, and
\* none changes a field of a tourist in place.
C24_SingleWriter ==
    [][ domain' # domain =>
          \E c \in CycleIds :
              /\ Applies(c)
              /\ dashboardStats'.cycle = c /\ dashboardStats'.kind = "data"
              /\ tourists'.cycle = c /\ tourists'.kind = "data"
              /\ incidents'.cycle = c /\ incidents'.kind = "data" ]_vars

\* C24 witness: after a verification, a login, a registration, a failed and a
\* successful refresh and changes of the view, the collections are those of the
\* one refresh that was applied.
C24_Witness ==
    /\ isLoggedIn /\ verifyReq.state = "verified" /\ Len(cycles) = 2
    /\ cycles[1].outcome = "failed" /\ cycles[2].outcome = "applied"
    /\ authError = RegisterSuccessMessage
    /\ selectedTourist # NoSelection /\ showEFirModal /\ searchQuery = <<"a">>
    /\ tourists.cycle = 2 /\ incidents.cycle = 2 /\ dashboardStats.cycle = 2

\* C26: authenticated implies a persisted token.  Whenever isLoggedIn is true a
\* token is stored under 'auth_token' and it is the token of the officer of the
\* current session.
C26_AuthenticatedHasToken ==
    isLoggedIn => (authToken \in Tokens /\ currentUser = UserOf(authToken))

\* C28: seed data is self-consistent.  While the seed collections are held, the
\* seed dashboardStats give the number of seed tourists, the number of seed
\* incidents whose status is 'active' and the number of seed tourists whose
\* status is 'safe'.
C28_SeedSelfConsistent ==
    (dashboardStats.kind = "seed" /\ tourists.kind = "seed" /\ incidents.kind = "seed") =>
        /\ dashboardStats.body.active_tourists = <<Len(tourists.body)>>
        /\ dashboardStats.body.active_incidents = <<CountFrom(incidents.body, "active", 1)>>
        /\ dashboardStats.body.safe_tourists = <<CountFrom(tourists.body, "safe", 1)>>

\* C29: the authentication busy flag always clears.  authLoading is true only
\* while the gateway call of a login or registration submit is awaited, no call
\* is awaited without it, and whenever it is true it becomes false again.
C29_BusyFlagClears ==
    /\ [](authLoading <=> (authReq # NoReq /\ authReq.state = "pending"))
    /\ (authLoading ~> ~authLoading)

\* C29 witness: a login call has failed by throwing; the message is shown and
\* the submit button is enabled again.
C29_Witness ==
    /\ authError = LoginThrownMessage /\ authReq = NoReq /\ ~authLoading
    /\ ~isLoggedIn /\ ~showRegister

====
